---- MODULE Spec2Model ----
(***************************************************************************)
(* Model of src/main.py: an interactive key/value metadata manager on a    *)
(* Db2 table `metadata (key VARCHAR(80) PRIMARY KEY, value VARCHAR(200))`. *)
(*                                                                         *)
(* Strings are sequences of one-character strings, so that len(), strip(), *)
(* split(), lower(), `in`, ORDER BY and LIKE are computed character by     *)
(* character.  The backing table is a SET of rows, so that "one row per    *)
(* key" is a property of the MERGE statement and not of the data type.     *)
(*                                                                         *)
(* Modelling assumptions about the external driver / backend:              *)
(*  - key comparison is exact string equality, ORDER BY is code-point      *)
(*    order, column lengths count characters (ASCII data);                 *)
(*  - every driver primitive may raise; a statement whose execute raises   *)
(*    has no effect on the table (statement atomicity, autocommit).        *)
(***************************************************************************)
EXTENDS Integers, Sequences, FiniteSets, TLC

VARIABLES
    tableExists,  \* backing store: the table `metadata` exists
    table,        \* backing store: set of rows [key, value]
    run,          \* number of program runs (calls of main) started so far
    pc,           \* "stopped" | "running" (repl awaits input) | "exited"
    conn,         \* self.conn of DB2Connections: "unset" | "open" | "closed"
    entered,      \* __enter__ returned normally in this run (successful open)
    closes,       \* number of ibm_db.close invocations in this run
    exitPath,     \* how the current run left main / repl
    boot,         \* bootstrap of this run: the backend's answer, what was printed
    last,         \* the last command processed: arguments, driver calls, result
    live,         \* history: keys whose most recent executed write is an upsert
    startup,      \* this run: state of the certificate file, ibm_db.connect calls
    inflight      \* an upsert between its driver calls: the statements still to run

vars == <<tableExists, table, run, pc, conn, entered, closes, exitPath, boot, last, live,
          startup, inflight>>

----------------------------------------------------------------------------
(* Bounds of the model *)

MaxRuns == 2

(* Program constants *)

MaxKeyLen == 80
MaxValueLen == 200

----------------------------------------------------------------------------
(* Strings *)

Code ==
    (" " :> 32) @@ ("%" :> 37) @@ ("-" :> 45) @@ ("." :> 46) @@ ("0" :> 48) @@
    ("1" :> 49) @@ ("2" :> 50) @@ ("3" :> 51) @@ ("4" :> 52) @@ ("6" :> 54) @@
    ("E" :> 69) @@ ("Q" :> 81) @@ ("S" :> 83) @@ ("T" :> 84) @@ ("_" :> 95) @@
    ("a" :> 97) @@ ("b" :> 98) @@ ("d" :> 100) @@ ("e" :> 101) @@ ("f" :> 102) @@
    ("g" :> 103) @@ ("h" :> 104) @@ ("i" :> 105) @@ ("k" :> 107) @@ ("l" :> 108) @@
    ("n" :> 110) @@ ("o" :> 111) @@ ("p" :> 112) @@ ("q" :> 113) @@ ("s" :> 115) @@
    ("t" :> 116) @@ ("u" :> 117) @@ ("v" :> 118) @@ ("x" :> 120) @@ ("y" :> 121)

Lower == ("E" :> "e") @@ ("Q" :> "q") @@ ("S" :> "s") @@ ("T" :> "t")

Min(S) == CHOOSE x \in S : \A y \in S : x <= y

Rep(c, n) == [i \in 1..n |-> c]

IsSpace(c) == c = " "

\* str.lower()
lower(s) == [i \in 1..Len(s) |-> IF s[i] \in DOMAIN Lower THEN Lower[s[i]] ELSE s[i]]

\* Index of the first / last character of s that is not whitespace (0: none)
FirstInk(s) ==
    IF \A i \in 1..Len(s) : IsSpace(s[i]) THEN 0
    ELSE CHOOSE i \in 1..Len(s) : ~IsSpace(s[i]) /\ \A j \in 1..(i - 1) : IsSpace(s[j])

LastInk(s) ==
    IF \A i \in 1..Len(s) : IsSpace(s[i]) THEN 0
    ELSE CHOOSE i \in 1..Len(s) : ~IsSpace(s[i]) /\ \A j \in (i + 1)..Len(s) : IsSpace(s[j])

\* Index of the first whitespace character of s (Len(s) + 1: none)
FirstSpace(s) ==
    IF \A i \in 1..Len(s) : ~IsSpace(s[i]) THEN Len(s) + 1
    ELSE CHOOSE i \in 1..Len(s) : IsSpace(s[i]) /\ \A j \in 1..(i - 1) : ~IsSpace(s[j])

\* str.lstrip()
lstrip(s) == IF FirstInk(s) = 0 THEN <<>> ELSE SubSeq(s, FirstInk(s), Len(s))

\* str.strip()
strip(s) == IF FirstInk(s) = 0 THEN <<>> ELSE SubSeq(s, FirstInk(s), LastInk(s))

\* str.split(maxsplit=n) with the default separator (runs of whitespace)
RECURSIVE split(_, _)
split(s, n) ==
    LET t == lstrip(s)
        e == FirstSpace(t)
    IN  IF t = <<>> THEN <<>>
        ELSE IF n = 0 THEN <<t>>
        ELSE <<SubSeq(t, 1, e - 1)>> \o split(SubSeq(t, e, Len(t)), n - 1)

\* `sub in s`
Contains(s, sub) ==
    \E i \in 0..(Len(s) - Len(sub)) : SubSeq(s, i + 1, i + Len(sub)) = sub

\* s.startswith(p)
StartsWith(s, p) == Len(s) >= Len(p) /\ SubSeq(s, 1, Len(p)) = p

\* s < t in code-point order
StrLess(s, t) ==
    LET m == IF Len(s) < Len(t) THEN Len(s) ELSE Len(t)
    IN  IF \A i \in 1..m : s[i] = t[i]
        THEN Len(s) < Len(t)
        ELSE LET d == CHOOSE i \in 1..m : s[i] # t[i] /\ \A j \in 1..(i - 1) : s[j] = t[j]
             IN  Code[s[d]] < Code[t[d]]

\* Faulty variant: "." taken for a one-character wildcard, as in a regular expression
RECURSIVE Like_DotAny(_, _)
Like_DotAny(s, p) ==
    IF p = <<>> THEN s = <<>>
    ELSE IF Head(p) = "%"
         THEN \E i \in 0..Len(s) : Like_DotAny(SubSeq(s, i + 1, Len(s)), Tail(p))
         ELSE /\ s # <<>>
              /\ (Head(p) \in {"_", "."} \/ Head(p) = Head(s))
              /\ Like_DotAny(Tail(s), Tail(p))

\* SQL: s LIKE p   (% = any run of characters, _ = any one character)
RECURSIVE Like(_, _)
Like(s, p) ==
    IF p = <<>> THEN s = <<>>
    ELSE IF Head(p) = "%"
         THEN \E i \in 0..Len(s) : Like(SubSeq(s, i + 1, Len(s)), Tail(p))
         ELSE /\ s # <<>>
              /\ (Head(p) = "_" \/ Head(p) = Head(s))
              /\ Like(Tail(s), Tail(p))

----------------------------------------------------------------------------
(* The driver (ibm_db) and the backing table *)

\* A driver primitive that raises: the first invocation of the named
\* primitive inside one operation raises; "none" lets every call return.
Faults == {"none", "prepare", "bind_param", "execute", "fetch_assoc", "exec_immediate"}

\* The primitives a parameterised statement, a parameterised query and the
\* unparameterised query of list_all go through.
StatementFaults == {"none", "prepare", "bind_param", "execute"}

QueryFaults == StatementFaults \cup {"fetch_assoc"}

ListFaults == {"none", "exec_immediate", "fetch_assoc"}

\* Without the table every statement fails when it is compiled (SQL0204N).
NoTable == "no table"

Compiles(call) == call \in {"prepare", "exec_immediate"}

\* The driver calls an operation gets to issue, given the primitive that raises.
Driver(calls, fault) ==
    LET hit == {i \in 1..Len(calls) :
                   calls[i] = fault \/ (fault = NoTable /\ Compiles(calls[i]))}
    IN  IF hit = {}
        THEN [calls |-> calls, raised |-> FALSE]
        ELSE [calls |-> SubSeq(calls, 1, Min(hit)), raised |-> TRUE]

Row(k, v) == [key |-> k, value |-> v]

\* Python None / a returned str
None == [some |-> FALSE, val |-> <<>>]
Some(v) == [some |-> TRUE, val |-> v]

\* Faulty variant: WHEN MATCHED does nothing (the old value is kept)
Merge_KeepOld(tbl, key, value) ==
    IF \E r \in tbl : r.key = key
    THEN [table |-> tbl, err |-> FALSE]
    ELSE [table |-> tbl \cup {Row(key, value)}, err |-> FALSE]

\* Faulty variant: a plain INSERT, which the primary key rejects for an existing key
Merge_PlainInsert(tbl, key, value) ==
    IF \E r \in tbl : r.key = key
    THEN [table |-> tbl, err |-> TRUE]
    ELSE [table |-> tbl \cup {Row(key, value)}, err |-> FALSE]

\* Faulty variant: the ON condition matches every row of the table
Merge_OnTrue(tbl, key, value) ==
    IF tbl # {}
    THEN [table |-> {Row(r.key, value) : r \in tbl}, err |-> FALSE]
    ELSE [table |-> {Row(key, value)}, err |-> FALSE]

\* MERGE INTO metadata ... ON tgt.key = src.key
\*   WHEN MATCHED THEN UPDATE SET value / WHEN NOT MATCHED THEN INSERT
\* (err: the statement fails with an SQL error and changes nothing)
Merge(tbl, key, value) ==
    IF \E r \in tbl : r.key = key
    THEN [table |-> {IF r.key = key THEN Row(r.key, value) ELSE r : r \in tbl},
          err |-> FALSE]
    ELSE [table |-> tbl \cup {Row(key, value)}, err |-> FALSE]

\* Faulty variant: the WHERE clause is lost
Delete_All(tbl, key) == {}

\* DELETE FROM metadata WHERE key = ?
Delete(tbl, key) == {r \in tbl : r.key # key}

\* ORDER BY key (rows of equal key, which the primary key excludes, by value)
RowLess(r, q) == StrLess(r.key, q.key) \/ (r.key = q.key /\ StrLess(r.value, q.value))

\* Faulty variant: descending order
OrderByKey_Desc(rows) ==
    [i \in 1..Cardinality(rows) |->
        CHOOSE r \in rows : Cardinality({q \in rows : RowLess(r, q)}) = i - 1]

OrderByKey(rows) ==
    [i \in 1..Cardinality(rows) |->
        CHOOSE r \in rows : Cardinality({q \in rows : RowLess(q, r)}) = i - 1]

\* SELECT value FROM metadata WHERE key = ?   followed by one fetch_assoc:
\* the first row of the result, or False
SelectValue(tbl, key) ==
    LET rs == OrderByKey({r \in tbl : r.key = key})
    IN  IF rs = <<>> THEN None ELSE Some(rs[1].value)

\* SELECT key, value FROM metadata ORDER BY key
SelectAll(tbl) == OrderByKey(tbl)

\* SELECT key, value FROM metadata WHERE key LIKE ? ORDER BY key
SelectLike(tbl, pattern) == OrderByKey({r \in tbl : Like(r.key, pattern)})

\* One fetch_assoc per row plus the one that returns False
Fetches(n) == [i \in 1..(n + 1) |-> "fetch_assoc"]

----------------------------------------------------------------------------
(* CRUD operations.  Each returns what it did: the table afterwards, the   *)
(* driver calls issued, whether it raised, what it printed and returned.   *)

Done(tbl, d, printed, val, rows) ==
    [table |-> tbl, calls |-> d.calls, raised |-> d.raised, sqlerr |-> FALSE,
     printed |-> IF d.raised THEN "" ELSE printed,
     val |-> IF d.raised THEN None ELSE val,
     rows |-> IF d.raised THEN <<>> ELSE rows]

\* ibm_db.execute raised because the backend rejected the statement.
SqlError(tbl, d) ==
    [table |-> tbl, calls |-> d.calls, raised |-> TRUE, sqlerr |-> TRUE,
     printed |-> "", val |-> None, rows |-> <<>>]

NoCall == [calls |-> <<>>, raised |-> FALSE]

\* Faulty variant: the length of the value is not checked
set_key_NoValueCheck(tbl, key, value, fault) ==
    IF Len(key) > MaxKeyLen
    THEN Done(tbl, NoCall, "ERROR Key too long", None, <<>>)
    ELSE LET d == Driver(<<"prepare", "bind_param", "bind_param", "execute">>, fault)
             m == Merge(tbl, key, value)
         IN  IF d.raised THEN Done(tbl, d, "", None, <<>>)
             ELSE IF m.err THEN SqlError(tbl, d)
             ELSE Done(m.table, d, "OK Set", None, <<>>)

\* Faulty variant: the length of the key is not checked
set_key_NoKeyCheck(tbl, key, value, fault) ==
    IF Len(value) > MaxValueLen
    THEN Done(tbl, NoCall, "ERROR Value too long", None, <<>>)
    ELSE LET d == Driver(<<"prepare", "bind_param", "bind_param", "execute">>, fault)
             m == Merge(tbl, key, value)
         IN  IF d.raised THEN Done(tbl, d, "", None, <<>>)
             ELSE IF m.err THEN SqlError(tbl, d)
             ELSE Done(m.table, d, "OK Set", None, <<>>)

set_key(tbl, key, value, fault) ==
    IF Len(key) > MaxKeyLen
    THEN Done(tbl, NoCall, "ERROR Key too long", None, <<>>)
    ELSE IF Len(value) > MaxValueLen
    THEN Done(tbl, NoCall, "ERROR Value too long", None, <<>>)
    ELSE LET d == Driver(<<"prepare", "bind_param", "bind_param", "execute">>, fault)
             m == Merge(tbl, key, value)
         IN  IF d.raised THEN Done(tbl, d, "", None, <<>>)
             ELSE IF m.err THEN SqlError(tbl, d)
             ELSE Done(m.table, d, "OK Set", None, <<>>)

\* Faulty variant: `if row and row["VALUE"]`, so an empty value counts as no row
get_key_Truthy(tbl, key, fault) ==
    LET d == Driver(<<"prepare", "bind_param", "execute", "fetch_assoc">>, fault)
        v == SelectValue(tbl, key)
    IN  Done(tbl, d, "", IF v.val = <<>> THEN None ELSE v, <<>>)

get_key(tbl, key, fault) ==
    LET d == Driver(<<"prepare", "bind_param", "execute", "fetch_assoc">>, fault)
    IN  Done(tbl, d, "", SelectValue(tbl, key), <<>>)

delete_key(tbl, key, fault) ==
    LET d == Driver(<<"prepare", "bind_param", "execute">>, fault)
    IN  Done(IF d.raised THEN tbl ELSE Delete(tbl, key), d, "OK Deleted", None, <<>>)

list_all(tbl, fault) ==
    LET rows == SelectAll(tbl)
        d    == Driver(<<"exec_immediate">> \o Fetches(Len(rows)), fault)
    IN  Done(tbl, d, "", None, rows)

search_keys(tbl, pattern, fault) ==
    LET rows == SelectLike(tbl, pattern)
        d    == Driver(<<"prepare", "bind_param", "execute">> \o Fetches(Len(rows)), fault)
    IN  Done(tbl, d, "", None, rows)

----------------------------------------------------------------------------
(* Connection manager *)

\* Faulty variant: the certificate file is not looked for.
DatabaseConfig_NoCheck(cert) == [raised |-> FALSE, error |-> "none"]

\* DatabaseConfig.__init__: raises unless DB2_SSL_CERT names an existing file
\* (Path(None) raises TypeError, a missing file FileNotFoundError).
DatabaseConfig(cert) ==
    [raised |-> cert # "present",
     error |-> CASE cert = "unset" -> "TypeError"
                 [] cert = "missing" -> "FileNotFoundError"
                 [] OTHER -> "none"]

\* Text of the exception ibm_db.exec_immediate raises for CREATE TABLE
ErrAlreadyExists == <<"S","Q","L","C","O","D","E","=","-","6","0","1">>
ErrSyntax        == <<"S","Q","L","C","O","D","E","=","-","1","0","4">>
\* SQL0552N "U-601" does not have the privilege to perform operation "CREATE TABLE"
ErrPrivilege     == <<"U","-","6","0","1"," ","S","Q","L","C","O","D","E","=","-","5","5","2">>

OkResponse == [ok |-> TRUE, cause |-> "none", text |-> <<>>]

\* What the backend may answer to the CREATE TABLE statement: success (the
\* table is created, or IF NOT EXISTS is honoured), SQL0601N when the table
\* exists and the backend does not honour IF NOT EXISTS, or another failure,
\* whose text may name an object or a user.
CreateResponses(exists) ==
    {OkResponse, [ok |-> FALSE, cause |-> "other", text |-> ErrSyntax],
     [ok |-> FALSE, cause |-> "other", text |-> ErrPrivilege]}
    \cup (IF exists
          THEN {[ok |-> FALSE, cause |-> "exists", text |-> ErrAlreadyExists]}
          ELSE {})

\* Faulty variant: every failure of the statement is re-raised
_create_table_Reraise(exists, resp) ==
    IF resp.ok
    THEN [raised |-> FALSE, tableExists |-> TRUE,
          boot |-> [cause |-> resp.cause, printed |-> "OK ready"]]
    ELSE [raised |-> TRUE, tableExists |-> exists,
          boot |-> [cause |-> resp.cause, printed |-> ""]]

_create_table_if_not_exists(exists, resp) ==
    IF resp.ok
    THEN [raised |-> FALSE, tableExists |-> TRUE,
          boot |-> [cause |-> resp.cause, printed |-> "OK ready"]]
    ELSE IF Contains(resp.text, <<"-", "6", "0", "1">>)
    THEN [raised |-> FALSE, tableExists |-> exists,
          boot |-> [cause |-> resp.cause, printed |-> "OK already exists"]]
    ELSE [raised |-> TRUE, tableExists |-> exists,
          boot |-> [cause |-> resp.cause, printed |-> ""]]

\* No bootstrap statement was issued.
NoBoot == [cause |-> "not run", printed |-> ""]

\* Faulty variant: a failed ibm_db.connect is reported and not re-raised.
__enter___SwallowConnect(exists, connectOk, resp) ==
    IF ~connectOk
    THEN [raised |-> FALSE, conn |-> "unset", tableExists |-> exists,
          boot |-> NoBoot, path |-> "none", connects |-> 1]
    ELSE LET b == _create_table_if_not_exists(exists, resp)
         IN  [raised |-> b.raised, conn |-> "open", tableExists |-> b.tableExists,
              boot |-> b.boot, path |-> IF b.raised THEN "bootstrap" ELSE "none",
              connects |-> 1]

\* DB2Connections.__enter__: connect, then bootstrap; any exception is
\* printed and re-raised.  self.conn stays as connect left it.
__enter__(exists, connectOk, resp) ==
    IF ~connectOk
    THEN [raised |-> TRUE, conn |-> "unset", tableExists |-> exists,
          boot |-> NoBoot, path |-> "connect", connects |-> 1]
    ELSE LET b == _create_table_if_not_exists(exists, resp)
         IN  [raised |-> b.raised, conn |-> "open", tableExists |-> b.tableExists,
              boot |-> b.boot, path |-> IF b.raised THEN "bootstrap" ELSE "none",
              connects |-> 1]

\* DB2Connections.__exit__: ibm_db.close(self.conn)
__exit__(c, n) == [conn |-> "closed", closes |-> n + 1]

\* Faulty variant: close() after repl(conn) without try/finally: skipped on an error
WithExit_NoFinally(how, c, n) ==
    IF how = "error" THEN [conn |-> c, closes |-> n] ELSE __exit__(c, n)

\* The `with` statement of main: __exit__ runs however the body is left
\* (how = "quit" | "eof" | "interrupt" | "error").
WithExit(how, c, n) == __exit__(c, n)

----------------------------------------------------------------------------
(* Inputs *)

W_set  == <<"s", "e", "t">>
W_get  == <<"g", "e", "t">>
W_del  == <<"d", "e", "l">>
W_list == <<"l", "i", "s", "t">>
W_find == <<"f", "i", "n", "d">>
W_help == <<"h", "e", "l", "p">>
W_exit == <<"e", "x", "i", "t">>
W_quit == <<"q", "u", "i", "t">>
W_q    == <<"q">>

K_app  == <<"a", "p", "p", ".">>
K_appx == <<"a", "p", "p", ".", "x">>
K_apzy == <<"a", "p", "p", "x", "y">>
K_b    == <<"b">>
K_max  == Rep("k", MaxKeyLen)
K_long == Rep("k", MaxKeyLen + 1)

V_1    == <<"1">>
V_2_3  == <<"2", " ", "3">>
V_max  == Rep("v", MaxValueLen)
V_long == Rep("v", MaxValueLen + 1)

P_app  == <<"a", "p", "p", ".", "%">>
P_any  == <<"%">>
P_one  == <<"a", "p", "p", "_", "%">>

SP == <<" ">>

\* Lines the operator may type at the prompt
SetLines ==
    {W_set \o SP \o k \o SP \o v : k \in {K_app, K_appx, K_max, K_long},
                                   v \in {V_1, V_2_3, V_long}}
    \cup {W_set \o SP \o K_max \o SP \o V_max,
          <<"S", "E", "T">> \o SP \o SP \o K_app \o SP \o SP \o V_2_3 \o SP,
          W_set \o SP \o K_app,
          W_set}

GetLines ==
    {W_get \o SP \o k : k \in {K_app, K_appx, K_b, K_max}}
    \cup {W_get \o SP \o K_app \o SP \o V_2_3, W_get}

DelLines ==
    {W_del \o SP \o k : k \in {K_app, K_appx, K_b, K_max}} \cup {W_del \o SP}

ListLines == {W_list, SP \o W_list \o SP \o V_1}

FindLines == {W_find \o SP \o p : p \in {P_app, P_any, P_one}} \cup {W_find}

OtherLines ==
    {<<>>, SP \o SP, W_help, W_exit, W_quit, W_q, <<"Q">>, W_exit \o SP \o V_1,
     <<"l", "s">>, W_set \o W_q}

Lines == SetLines \cup GetLines \cup DelLines \cup ListLines \cup FindLines \cup OtherLines

\* Arguments of direct calls of the CRUD functions
StoreKeys     == {<<>>, K_app, K_appx, K_apzy, K_max, K_long}
StoreSets     ==
    {<<k, V_1>> : k \in {K_app, K_appx, K_apzy, K_long}}
    \cup {<<<<>>, <<>>>>, <<K_app, <<>>>>, <<K_max, V_max>>, <<K_app, V_long>>,
          <<K_long, V_long>>}
StorePatterns == {P_app, P_any, P_one, <<>>}

----------------------------------------------------------------------------
(* Command dispatcher *)

print_table(rows) == IF rows = <<>> THEN "no records found" ELSE "table"

Arg(parts, i) == IF Len(parts) >= i THEN parts[i] ELSE <<>>

\* What one iteration of the loop did, apart from reading the line.
Outcome(cmd, parts, brk, out, r) ==
    [cmd |-> cmd, nparts |-> Len(parts), key |-> Arg(parts, 2), value |-> Arg(parts, 3),
     brk |-> brk, raised |-> r.raised, sqlerr |-> r.sqlerr, table |-> r.table,
     calls |-> r.calls, out |-> IF r.raised THEN "raised" ELSE out, val |-> r.val,
     rows |-> r.rows]

Nothing(tbl) == Done(tbl, NoCall, "", None, <<>>)

\* input(...).strip() and line.split(maxsplit=2) of every line of Lines
\* (a table of the values, computed once)
Tokens == [l \in Lines |-> [line |-> strip(l), parts |-> split(strip(l), 2)]]

\* Faulty variant: del does not check that it was given a key.
repl_NoUsageCheck(tbl, rawline, fault) ==
    LET line  == Tokens[rawline].line
        parts == Tokens[rawline].parts
        cmd   == lower(parts[1])
    IN  IF line = <<>> THEN Outcome("blank", <<>>, FALSE, "", Nothing(tbl))
        ELSE CASE cmd \in {W_exit, W_quit, W_q} ->
                    Outcome("exit", parts, TRUE, "", Nothing(tbl))
               [] cmd = W_help ->
                    Outcome("help", parts, FALSE, "help", Nothing(tbl))
               [] cmd = W_set ->
                    IF Len(parts) < 3
                    THEN Outcome("set", parts, FALSE, "ERROR Usage", Nothing(tbl))
                    ELSE LET r == set_key(tbl, parts[2], parts[3], fault)
                         IN  Outcome("set", parts, FALSE, r.printed, r)
               [] cmd = W_get ->
                    IF Len(parts) < 2
                    THEN Outcome("get", parts, FALSE, "ERROR Usage", Nothing(tbl))
                    ELSE LET r == get_key(tbl, parts[2], fault)
                         IN  Outcome("get", parts, FALSE,
                                     IF r.val = None THEN "not found" ELSE "value", r)
               [] cmd = W_del ->
                    LET r == delete_key(tbl, Arg(parts, 2), fault)
                    IN  Outcome("del", parts, FALSE, r.printed, r)
               [] cmd = W_list ->
                    LET r == list_all(tbl, fault)
                    IN  Outcome("list", parts, FALSE, print_table(r.rows), r)
               [] cmd = W_find ->
                    IF Len(parts) < 2
                    THEN Outcome("find", parts, FALSE, "ERROR Usage", Nothing(tbl))
                    ELSE LET r == search_keys(tbl, parts[2], fault)
                         IN  Outcome("find", parts, FALSE, print_table(r.rows), r)
               [] OTHER ->
                    Outcome("unknown", parts, FALSE, "ERROR Unknown command", Nothing(tbl))

\* The body of the while loop of repl for one line read by input().
repl(tbl, rawline, fault) ==
    LET line  == Tokens[rawline].line
        parts == Tokens[rawline].parts
        cmd   == lower(parts[1])
    IN  IF line = <<>> THEN Outcome("blank", <<>>, FALSE, "", Nothing(tbl))
        ELSE CASE cmd \in {W_exit, W_quit, W_q} ->
                    Outcome("exit", parts, TRUE, "", Nothing(tbl))
               [] cmd = W_help ->
                    Outcome("help", parts, FALSE, "help", Nothing(tbl))
               [] cmd = W_set ->
                    IF Len(parts) < 3
                    THEN Outcome("set", parts, FALSE, "ERROR Usage", Nothing(tbl))
                    ELSE LET r == set_key(tbl, parts[2], parts[3], fault)
                         IN  Outcome("set", parts, FALSE, r.printed, r)
               [] cmd = W_get ->
                    IF Len(parts) < 2
                    THEN Outcome("get", parts, FALSE, "ERROR Usage", Nothing(tbl))
                    ELSE LET r == get_key(tbl, parts[2], fault)
                         IN  Outcome("get", parts, FALSE,
                                     IF r.val = None THEN "not found" ELSE "value", r)
               [] cmd = W_del ->
                    IF Len(parts) < 2
                    THEN Outcome("del", parts, FALSE, "ERROR Usage", Nothing(tbl))
                    ELSE LET r == delete_key(tbl, parts[2], fault)
                         IN  Outcome("del", parts, FALSE, r.printed, r)
               [] cmd = W_list ->
                    LET r == list_all(tbl, fault)
                    IN  Outcome("list", parts, FALSE, print_table(r.rows), r)
               [] cmd = W_find ->
                    IF Len(parts) < 2
                    THEN Outcome("find", parts, FALSE, "ERROR Usage", Nothing(tbl))
                    ELSE LET r == search_keys(tbl, parts[2], fault)
                         IN  Outcome("find", parts, FALSE, print_table(r.rows), r)
               [] OTHER ->
                    Outcome("unknown", parts, FALSE, "ERROR Unknown command", Nothing(tbl))

----------------------------------------------------------------------------
(* State machine of the program: main() run against one backing store *)

NoCommand ==
    [cmd |-> "none", nparts |-> 0, key |-> <<>>, value |-> <<>>, brk |-> FALSE,
     raised |-> FALSE, sqlerr |-> FALSE, calls |-> <<>>, out |-> "", val |-> None,
     rows |-> <<>>, had |-> 0]

\* What is remembered of a command; had: the number of rows the table held
\* under the command's key when the command began.
Record(o) ==
    [cmd |-> o.cmd, nparts |-> o.nparts, key |-> o.key, value |-> o.value,
     brk |-> o.brk, raised |-> o.raised, sqlerr |-> o.sqlerr, calls |-> o.calls,
     out |-> o.out, val |-> o.val, rows |-> o.rows,
     had |-> IF o.cmd \in {"set", "get", "del"}
             THEN Cardinality({r \in table : r.key = o.key}) ELSE 0]

\* The statement of a write reached the backend and completed.
Executed(o) == ~o.raised /\ \E i \in 1..Len(o.calls) : o.calls[i] = "execute"

Live(o) ==
    IF o.cmd = "set" /\ Executed(o) THEN live \cup {o.key}
    ELSE IF o.cmd = "del" /\ Executed(o) THEN live \ {o.key}
    ELSE live

\* No upsert is between two driver calls.  stmts: the statements the upsert
\* has still to execute; ran: the statements it has executed; raced
\* (history): another session wrote the key while a statement was pending.
Idle == [stmts |-> <<>>, key |-> <<>>, value |-> <<>>, ran |-> 0, raced |-> FALSE]

Init ==
    /\ tableExists = FALSE
    /\ table = {}
    /\ run = 0
    /\ pc = "stopped"
    /\ conn = "unset"
    /\ entered = FALSE
    /\ closes = 0
    /\ exitPath = "none"
    /\ boot = NoBoot
    /\ last = NoCommand
    /\ live = {}
    /\ startup = [cert |-> "none", error |-> "none", connects |-> 0]
    /\ inflight = Idle

\* main(): DatabaseConfig(), then the `with` statement up to the first prompt.
Start ==
    /\ pc \in {"stopped", "exited"}
    /\ run < MaxRuns
    /\ run' = run + 1
    /\ closes' = 0
    /\ last' = NoCommand
    /\ UNCHANGED <<table, live, inflight>>
    /\ \E cert \in {"unset", "missing", "present"}, connectOk \in BOOLEAN,
          resp \in CreateResponses(tableExists) :
          IF DatabaseConfig(cert).raised
          THEN /\ pc' = "exited"
               /\ startup' = [cert |-> cert, error |-> DatabaseConfig(cert).error,
                               connects |-> 0]
               /\ exitPath' = "config"
               /\ conn' = "unset"
               /\ entered' = FALSE
               /\ boot' = NoBoot
               /\ UNCHANGED tableExists
          ELSE LET e == __enter__(tableExists, connectOk, resp)
               IN  /\ pc' = IF e.raised THEN "exited" ELSE "running"
                   /\ exitPath' = e.path
                   /\ conn' = e.conn
                   /\ entered' = ~e.raised
                   /\ boot' = e.boot
                   /\ tableExists' = e.tableExists
                   /\ startup' = [cert |-> cert, error |-> DatabaseConfig(cert).error,
                                   connects |-> e.connects]

\* Leaving the `with` body: __exit__ closes the connection, main returns.
Leave(how) ==
    LET x == WithExit(how, conn, closes)
    IN  /\ pc' = "exited"
        /\ exitPath' = how
        /\ conn' = x.conn
        /\ closes' = x.closes

\* Faulty variant: an exception of a store call is caught in the loop.
Step_SwallowError(o) ==
    /\ pc = "running"
    /\ table' = o.table
    /\ last' = Record(o)
    /\ live' = Live(o)
    /\ IF o.brk THEN Leave("quit")
       ELSE UNCHANGED <<pc, exitPath, conn, closes>>
    /\ UNCHANGED <<tableExists, run, entered, boot, startup, inflight>>

\* One iteration of the loop of repl, after input() returned `line`.
Step(o) ==
    /\ pc = "running"
    /\ table' = o.table
    /\ last' = Record(o)
    /\ live' = Live(o)
    /\ IF o.raised THEN Leave("error")
       ELSE IF o.brk THEN Leave("quit")
       ELSE UNCHANGED <<pc, exitPath, conn, closes>>
    /\ UNCHANGED <<tableExists, run, entered, boot, startup, inflight>>

\* The lines of Lines by the case of the match statement they reach
\* (a table of the values, computed once)
LinesOf ==
    [c \in {"blank", "exit", "help", "set", "get", "del", "list", "find", "unknown"} |->
        {l \in Lines : repl({}, l, "none").cmd = c}]

\* Faulty variant: the exception of input() is swallowed, the loop prompts again.
ReadStop_Continue(how) ==
    /\ pc = "running"
    /\ last' = [NoCommand EXCEPT !.cmd = how, !.brk = TRUE]
    /\ UNCHANGED <<pc, exitPath, conn, closes>>
    /\ UNCHANGED <<tableExists, table, run, entered, boot, live, startup, inflight>>

\* input() raised EOFError / KeyboardInterrupt: break
ReadStop(how) ==
    /\ pc = "running"
    /\ last' = [NoCommand EXCEPT !.cmd = how, !.brk = TRUE]
    /\ Leave(how)
    /\ UNCHANGED <<tableExists, table, run, entered, boot, live, startup, inflight>>

\* What the driver does to the calls of a command: one primitive may raise,
\* and without the table the first statement fails.
Backend(fault) == IF tableExists THEN fault ELSE NoTable

ReadEOF == ReadStop("eof")

ReadInterrupt == ReadStop("interrupt")

ReplBlank ==
    \E line \in LinesOf["blank"] :
        Step(repl(table, line, Backend("none")))

ReplExit ==
    \E line \in LinesOf["exit"] :
        Step(repl(table, line, Backend("none")))

ReplHelp ==
    \E line \in LinesOf["help"] :
        Step(repl(table, line, Backend("none")))

ReplSet ==
    \E line \in LinesOf["set"], fault \in StatementFaults :
        Step(repl(table, line, Backend(fault)))

ReplGet ==
    \E line \in LinesOf["get"], fault \in QueryFaults :
        Step(repl(table, line, Backend(fault)))

ReplDel ==
    \E line \in LinesOf["del"], fault \in StatementFaults :
        Step(repl(table, line, Backend(fault)))

ReplList ==
    \E line \in LinesOf["list"], fault \in ListFaults :
        Step(repl(table, line, Backend(fault)))

ReplFind ==
    \E line \in LinesOf["find"], fault \in QueryFaults :
        Step(repl(table, line, Backend(fault)))

ReplUnknown ==
    \E line \in LinesOf["unknown"] :
        Step(repl(table, line, Backend("none")))

Next ==
    \/ Start
    \/ ReadEOF
    \/ ReadInterrupt
    \/ ReplBlank
    \/ ReplExit
    \/ ReplHelp
    \/ ReplSet
    \/ ReplGet
    \/ ReplDel
    \/ ReplList
    \/ ReplFind
    \/ ReplUnknown

Spec == Init /\ [][Next]_vars

----------------------------------------------------------------------------
(* The CRUD functions called directly, with arbitrary arguments, on the     *)
(* connection of a session that is open: the state after a successful       *)
(* __enter__ on a fresh backing store.                                      *)

StoreInit ==
    /\ tableExists = TRUE
    /\ table = {}
    /\ run = 1
    /\ pc = "running"
    /\ conn = "open"
    /\ entered = TRUE
    /\ closes = 0
    /\ exitPath = "none"
    /\ boot = [cause |-> "none", printed |-> "OK ready"]
    /\ last = NoCommand
    /\ live = {}
    /\ startup = [cert |-> "present", error |-> "none", connects |-> 1]
    /\ inflight = Idle

Call(cmd, key, value, r) ==
    [cmd |-> cmd, nparts |-> 0, key |-> key, value |-> value, brk |-> FALSE,
     raised |-> r.raised, sqlerr |-> r.sqlerr, table |-> r.table, calls |-> r.calls,
     out |-> IF r.raised THEN "raised" ELSE r.printed, val |-> r.val, rows |-> r.rows]

Returned(o) ==
    /\ pc = "running"
    /\ table' = o.table
    /\ last' = Record(o)
    /\ live' = Live(o)
    /\ UNCHANGED <<tableExists, run, pc, conn, entered, closes, exitPath, boot,
                   startup, inflight>>

CallSet ==
    \E a \in StoreSets, fault \in StatementFaults :
        Returned(Call("set", a[1], a[2], set_key(table, a[1], a[2], fault)))

CallGet ==
    \E k \in StoreKeys, fault \in QueryFaults :
        Returned(Call("get", k, <<>>, get_key(table, k, fault)))

CallDelete ==
    \E k \in StoreKeys, fault \in StatementFaults :
        Returned(Call("del", k, <<>>, delete_key(table, k, fault)))

CallList ==
    \E fault \in ListFaults : Returned(Call("list", <<>>, <<>>, list_all(table, fault)))

CallSearch ==
    \E p \in StorePatterns, fault \in QueryFaults :
        Returned(Call("find", p, <<>>, search_keys(table, p, fault)))

StoreNext == CallSet \/ CallGet \/ CallDelete \/ CallList \/ CallSearch

SpecStore == StoreInit /\ [][StoreNext]_vars

----------------------------------------------------------------------------
(* set_key at the grain of its driver calls, next to a second session on    *)
(* the same table.  The backing store executes each statement of each       *)
(* session as one step and enforces the primary key of metadata.            *)

ConcKeys   == {K_app, K_b}
ConcValues == {V_1, V_2_3}
ExtValues  == {V_2_3, V_max}

\* set_key up to ibm_db.bind_param: the MERGE is prepared, not yet executed.
Prepared(key, value) ==
    [stmts |-> <<"merge">>, key |-> key, value |-> value, ran |-> 0, raced |-> FALSE]

\* Faulty variant: SELECT the key, then INSERT or UPDATE, as two statements.
set_key_execute_SelectThenWrite(tbl, f) ==
    LET there == \E r \in tbl : r.key = f.key
    IN  CASE f.stmts = <<"merge">> ->
               [table |-> tbl, err |-> FALSE,
                inflight |-> [f EXCEPT !.ran = 1,
                                       !.stmts = IF there THEN <<"update">>
                                                 ELSE <<"insert">>]]
          [] f.stmts = <<"update">> ->
               [table |-> {IF r.key = f.key THEN Row(r.key, f.value) ELSE r : r \in tbl},
                err |-> FALSE, inflight |-> [f EXCEPT !.ran = 2, !.stmts = <<>>]]
          [] OTHER ->
               [table |-> IF there THEN tbl ELSE tbl \cup {Row(f.key, f.value)},
                err |-> there, inflight |-> [f EXCEPT !.ran = 2, !.stmts = <<>>]]

\* ibm_db.execute(stmt) of set_key: the one statement, the MERGE, runs.
set_key_execute(tbl, f) ==
    LET mg == Merge(tbl, f.key, f.value)
    IN  [table |-> mg.table, err |-> mg.err,
         inflight |-> [f EXCEPT !.ran = f.ran + 1, !.stmts = Tail(f.stmts)]]

ConcInit == StoreInit

\* set_key: the length checks, ibm_db.prepare, ibm_db.bind_param twice
SetPrepare ==
    /\ pc = "running"
    /\ inflight.stmts = <<>>
    /\ \E k \in ConcKeys, v \in ConcValues :
          /\ Len(k) <= MaxKeyLen
          /\ Len(v) <= MaxValueLen
          /\ inflight' = Prepared(k, v)
    /\ UNCHANGED <<tableExists, table, run, pc, conn, entered, closes, exitPath, boot,
                   last, live, startup>>

\* set_key: ibm_db.execute and the print that follows
SetExecute ==
    /\ pc = "running"
    /\ inflight.stmts # <<>>
    /\ LET x == set_key_execute(table, inflight)
           d == Driver(<<"prepare", "bind_param", "bind_param", "execute">>, "none")
           o == Call("set", inflight.key, inflight.value,
                     IF x.err THEN SqlError(x.table, d)
                     ELSE Done(x.table, d, "OK Set", None, <<>>))
       IN  /\ table' = x.table
           /\ inflight' = x.inflight
           /\ IF x.inflight.stmts = <<>>
              THEN last' = Record(o) /\ live' = Live(o)
              ELSE UNCHANGED <<last, live>>
    /\ UNCHANGED <<tableExists, run, pc, conn, entered, closes, exitPath, boot, startup>>

\* The other session writes: one statement of its own
External(tbl, k) ==
    /\ table' = tbl
    /\ inflight' = [inflight EXCEPT
                       !.raced = @ \/ (inflight.stmts # <<>> /\ inflight.key = k)]
    /\ UNCHANGED <<tableExists, run, pc, conn, entered, closes, exitPath, boot,
                   last, live, startup>>

ExtUpsert == \E k \in ConcKeys, v \in ExtValues : External(Merge(table, k, v).table, k)

ExtDelete == \E k \in ConcKeys : External(Delete(table, k), k)

ConcNext == SetPrepare \/ SetExecute \/ ExtUpsert \/ ExtDelete

SpecConc == ConcInit /\ [][ConcNext]_vars

----------------------------------------------------------------------------
(* Properties *)

\* C1: in every run close() is invoked exactly once per successful open
\* (__enter__ returned), on every way out of the session -- quit, end of
\* input, interrupt at the prompt, an error raised while a command is
\* processed: never before the session ends, never twice, never skipped, and
\* never without a successful open.
C1_CloseExactlyOnce ==
    /\ closes \in {0, 1}
    /\ closes = 1 => entered
    /\ pc = "running" => (entered /\ closes = 0 /\ conn = "open")
    /\ (pc = "exited" /\ entered) =>
          (closes = 1 /\ conn = "closed"
           /\ exitPath \in {"quit", "eof", "interrupt", "error"})

C1_Witness ==
    /\ pc = "exited" /\ entered /\ exitPath = "error" /\ tableExists
    /\ last.cmd = "set" /\ last.raised /\ closes = 1

\* C2: right after an upsert of (key, value) within the length bounds that
\* did not raise, from any table state, get(key) returns exactly that value.
C2_UpsertThenGet ==
    (/\ last.cmd = "set"
     /\ Len(last.key) <= MaxKeyLen /\ Len(last.value) <= MaxValueLen
     /\ ~last.raised) =>
        /\ last.out = "OK Set"
        /\ \A f \in Faults :
              LET g == get_key(table, last.key, f)
              IN  ~g.raised => (g.val = Some(last.value) /\ g.table = table)

C2_Witness ==
    /\ last.cmd = "set" /\ last.out = "OK Set"
    /\ last.key = K_max /\ last.value = V_max
    /\ Cardinality(table) >= 3

\* C3: the table holds at most one row per key; an upsert on a key that is
\* already there is never rejected by the backend and, when it completes,
\* leaves exactly one row for the key, holding the new value.
C3_OneRowPerKey ==
    /\ \A r, q \in table : r.key = q.key => r = q
    /\ (last.cmd = "set" /\ last.had >= 1 /\ last.calls # <<>>) =>
          /\ ~last.sqlerr
          /\ ~last.raised =>
                /\ last.out = "OK Set"
                /\ {r \in table : r.key = last.key} = {Row(last.key, last.value)}

C3_Witness ==
    /\ last.cmd = "set" /\ last.had = 1 /\ last.out = "OK Set"
    /\ last.key = K_app /\ last.value = <<>>
    /\ Cardinality(table) >= 2

\* C4: get(key) returns None when the key was never upserted or its most
\* recent write was a delete, and returns "" -- found, and different from
\* None -- when the stored value is the empty string.
C4_GetNotFound ==
    (last.cmd = "get" /\ ~last.raised) =>
        /\ ~last.sqlerr
        /\ last.key \notin live => last.val = None
        /\ Row(last.key, <<>>) \in table => (last.val = Some(<<>>) /\ last.val # None)

C4_Witness ==
    /\ last.cmd = "get" /\ ~last.raised
    /\ last.key = K_app /\ last.val = Some(<<>>)

\* C5: delete(key) never fails for want of the key; when it completes it
\* reports success, removes exactly the rows of that key and no other, and so
\* leaves the table as it was when the key is not there.
C5_DeleteFrame ==
    [][last'.cmd = "del" =>
          /\ ~last'.sqlerr
          /\ ~last'.raised =>
                /\ last'.out = "OK Deleted"
                /\ table' \subseteq table
                /\ \A r \in table : r \in table' <=> r.key # last'.key
                /\ (\A r \in table : r.key # last'.key) => table' = table]_vars

C5_Witness ==
    /\ last.cmd = "del" /\ last.had = 0 /\ last.out = "OK Deleted"
    /\ Cardinality(table) >= 2

\* C6: listAll returns the rows in strictly ascending key order, as many as
\* there are keys upserted and not deleted since.
C6_ListOrdered ==
    (last.cmd = "list" /\ ~last.raised) =>
        /\ \A i \in 1..(Len(last.rows) - 1) :
              StrLess(last.rows[i].key, last.rows[i + 1].key)
        /\ Len(last.rows) = Cardinality(live)
        /\ {last.rows[i] : i \in 1..Len(last.rows)} = table

C6_Witness ==
    /\ last.cmd = "list" /\ ~last.raised
    /\ Len(last.rows) >= 4

HasAppPrefix(r) == StartsWith(r.key, K_app)

\* C7: search("app.%") returns exactly the rows of listAll() whose key
\* starts with "app.", in the order listAll() gives them.
C7_SearchPrefix ==
    (last.cmd = "find" /\ last.key = P_app /\ ~last.raised) =>
        last.rows = SelectSeq(list_all(table, "none").rows, HasAppPrefix)

C7_Witness ==
    /\ last.cmd = "find" /\ last.key = P_app /\ ~last.raised
    /\ Len(last.rows) = 2
    /\ \E r \in table : r.key = K_apzy

\* C8: a set whose key is longer than 80 or whose value is longer than 200
\* characters reports the validation error of the offending field, issues no
\* driver call, leaves the table unchanged and leaves the loop running.
C8_ValidationNoDbCall ==
    [][(/\ last'.cmd = "set" /\ last'.nparts = 3
        /\ (Len(last'.key) > MaxKeyLen \/ Len(last'.value) > MaxValueLen)) =>
          /\ last'.out = IF Len(last'.key) > MaxKeyLen
                         THEN "ERROR Key too long" ELSE "ERROR Value too long"
          /\ last'.calls = <<>>
          /\ ~last'.raised
          /\ table' = table
          /\ pc' = "running"]_vars

C8_Witness ==
    /\ last.cmd = "set" /\ last.out = "ERROR Value too long"
    /\ Len(last.key) = MaxKeyLen /\ Len(last.value) = MaxValueLen + 1
    /\ last.calls = <<>> /\ pc = "running" /\ table # {}

\* C9 as stated: every stored row has a key of 1 to 80 and a value of 1 to
\* 200 characters, whatever strings set_key is called with.
C9_LengthsFromOne ==
    \A r \in table :
        /\ Len(r.key) >= 1 /\ Len(r.key) <= MaxKeyLen
        /\ Len(r.value) >= 1 /\ Len(r.value) <= MaxValueLen

\* C9 as amended: every stored row has a key of at most 80 and a value of at
\* most 200 characters (set_key sets no minimum: the empty string is stored).
C9_LengthsAtMost ==
    \A r \in table : Len(r.key) <= MaxKeyLen /\ Len(r.value) <= MaxValueLen

C9_Witness ==
    /\ Row(K_max, V_max) \in table
    /\ Row(<<>>, <<>>) \in table
    /\ last.cmd = "set" /\ Len(last.key) > MaxKeyLen

\* C10: a bootstrap statement that fails because the table already exists
\* counts as a successful open and the session runs; on the first open and
\* on every later one against the same store, a bootstrap is fatal only for
\* a cause other than the table being there.
C10_BootstrapIdempotent ==
    /\ boot.cause = "exists" =>
          /\ entered
          /\ boot.printed = "OK already exists"
          /\ exitPath \in {"none", "quit", "eof", "interrupt", "error"}
          /\ exitPath = "none" => pc = "running"
    /\ exitPath = "bootstrap" => boot.cause = "other"

C10_Witness ==
    /\ run = 2 /\ boot.cause = "exists" /\ pc = "running"
    /\ last = NoCommand /\ table # {}

\* C11: a bootstrap statement that fails for a cause other than the table
\* being there is fatal: the open does not succeed, the loop is not running
\* and the session processes no command.  (Refuted: the cause is recognised
\* by the substring "-601" anywhere in the text of the error, so SQL0552N
\* naming the user "U-601" is counted as "already exists".)
C11_OtherBootstrapFatal ==
    boot.cause = "other" =>
        /\ ~entered
        /\ pc = "exited"
        /\ exitPath = "bootstrap"
        /\ boot.printed = ""
        /\ last = NoCommand

\* C12: a session that ends on a fatal error after ibm_db.connect returned
\* has closed the connection.  (Refuted: __enter__ raises out of the
\* bootstrap, the `with` statement never calls __exit__.)
C12_ReleasedOnFatal ==
    (pc = "exited" /\ exitPath \in {"bootstrap", "error"}) =>
        /\ closes = 1
        /\ conn = "closed"

\* C13: a command whose statement raised when it was executed is reported for that command
\* only: the loop is still running, the connection open, and the next
\* command is read; stated of sessions whose table is there.  (Refuted: repl
\* has no handler around the store calls, the exception leaves the loop and
\* the session.)
C13_QueryErrorKeepsRunning ==
    (/\ last.raised /\ tableExists /\ boot.cause # "other"
     /\ last.calls # <<>>
     /\ last.calls[Len(last.calls)] \in {"execute", "exec_immediate"}) =>
        /\ pc = "running"
        /\ exitPath = "none"
        /\ conn = "open"

C15_UsageNoDbCall ==
    [][(\/ (last'.cmd = "set" /\ last'.nparts < 3)
        \/ (last'.cmd \in {"get", "del", "find"} /\ last'.nparts < 2)) =>
          /\ last'.out = "ERROR Usage"
          /\ last'.calls = <<>>
          /\ ~last'.raised
          /\ table' = table
          /\ live' = live
          /\ pc' = "running"]_vars

C15_Witness ==
    /\ last.cmd = "set" /\ last.nparts = 2 /\ last.key = K_app
    /\ last.out = "ERROR Usage" /\ last.calls = <<>>
    /\ K_app \notin {r.key : r \in table} /\ table # {} /\ pc = "running"

\* C16: a run whose certificate file does not exist fails in DatabaseConfig
\* with FileNotFoundError before anything else: ibm_db.connect is not called,
\* no bootstrap statement is issued, nothing is closed, the loop is not
\* entered and no command is read.
C16_MissingCertNoConnect ==
    startup.cert = "missing" =>
        /\ startup.error = "FileNotFoundError"
        /\ startup.connects = 0
        /\ conn = "unset"
        /\ closes = 0
        /\ boot = NoBoot
        /\ ~entered
        /\ pc = "exited"
        /\ exitPath = "config"
        /\ last = NoCommand

C16_Witness ==
    /\ run = 2 /\ startup.cert = "missing" /\ exitPath = "config"
    /\ tableExists /\ table # {}

\* C18: an exception raised during a driver call of a command leaves the
\* loop at once: nothing is retried or compensated (the calls end with the
\* one that raised, the table is as it was), the session ends as an error
\* with the connection closed, and no further command is processed in it.
C18_InFlightFailureFatal ==
    [][/\ (pc = "running" /\ last'.raised) =>
             /\ last'.calls # <<>>
             /\ last'.out = "raised"
             /\ table' = table
             /\ pc' = "exited"
             /\ exitPath' = "error"
             /\ conn' = "closed"
       /\ (pc = "exited" /\ exitPath = "error") =>
             /\ table' = table
             /\ last' = last \/ (last' = NoCommand /\ run' = run + 1)
      ]_vars

C18_Witness ==
    /\ pc = "exited" /\ exitPath = "error" /\ tableExists
    /\ last.cmd = "find" /\ last.raised
    /\ last.calls = <<"prepare", "bind_param", "execute", "fetch_assoc">>
    /\ table # {}

C20_Frame ==
    [][/\ last'.cmd \notin {"set", "del"} => table' = table
       /\ table' # table =>
             LET k == last'.key
             IN  /\ {r \in table' : r.key # k} = {r \in table : r.key # k}
                 /\ ~last'.raised
                 /\ \/ /\ last'.cmd = "set"
                       /\ last'.nparts = 3
                       /\ Len(k) \in 1..MaxKeyLen
                       /\ Len(last'.value) \in 1..MaxValueLen
                       /\ {r \in table' : r.key = k} = {Row(k, last'.value)}
                    \/ /\ last'.cmd = "del"
                       /\ last'.nparts >= 2
                       /\ last'.had = 1
                       /\ {r \in table' : r.key = k} = {}
                       /\ Cardinality(table') = Cardinality(table) - 1
      ]_vars

C20_Witness ==
    /\ last.cmd = "del" /\ last.had = 1 /\ ~last.raised
    /\ last.key = K_max /\ Cardinality(table) = 2
    /\ K_max \notin {r.key : r \in table}

\* C17: whatever another session does to the same key between the driver
\* calls of set_key, the upsert has no state in which one of its statements
\* has run and another is pending; the statement it executes leaves exactly
\* the row (key, value) under the key and the other rows as they were, and
\* does not fail; no key ever has two rows.
C17_AtomicUpsert ==
    [][/\ \A k \in ConcKeys : Cardinality({r \in table' : r.key = k}) <= 1
       /\ inflight'.stmts # <<>> => inflight'.ran = 0
       /\ ~last'.sqlerr
       /\ (inflight.stmts # <<>> /\ inflight'.ran > inflight.ran) =>
             /\ inflight'.stmts = <<>>
             /\ last'.cmd = "set" /\ ~last'.raised /\ last'.out = "OK Set"
             /\ {r \in table' : r.key = inflight.key} = {Row(inflight.key, inflight.value)}
             /\ {r \in table' : r.key # inflight.key} = {r \in table : r.key # inflight.key}
      ]_vars

C17_Witness ==
    /\ inflight.stmts = <<>> /\ inflight.ran = 1 /\ inflight.raced
    /\ inflight.key = K_app /\ inflight.value = V_1
    /\ last.cmd = "set" /\ last.had = 1 /\ Row(K_app, V_1) \in table
    /\ Row(K_b, V_max) \in table

====
